---------------------------- MODULE Spec2Model ----------------------------
(***************************************************************************)
(* Model of AssignmentTracker.py: the reconciliation run                   *)
(* prepare_and_send_data and the helpers it calls.                         *)
(*                                                                         *)
(* Python strings are sequences of one-character strings, so that split,   *)
(* strip, lower, join, endswith and the lexicographic comparison of        *)
(* strings are computed as the code computes them.  An instant is          *)
(* represented by its Asia/Kolkata wall-clock reading, a record            *)
(* [y, mo, d, h, mi, s].                                                   *)
(***************************************************************************)
EXTENDS Integers, Sequences, FiniteSets, TLC

VARIABLES
    \* ---- the external world, fixed for the whole behaviour ----
    sheetResponse,   \* what GET GOOGLE_SHEET_URL_FETCH answers: an error or the feed
    ghResponse,      \* what `gh pr list` answers: gh missing, an error, or the PRs
    cloneResponse,   \* what `git clone` answers: an error or the working tree
    \* ---- the process ----
    pc,              \* position in prepare_and_send_data
    run,             \* "first" or "second" invocation of the entry point
    outcome,         \* what the caller sees: "none" (running), "returned", "raised"
    data_from_sheet, names_dict, output_data,
    idx,             \* index of the current entry of data_from_sheet
    target_files, pr_list, launched_str, time_str, date_str,
    author_pr_files, \* ordered dict: sequence of [author, files]
    apos,            \* position of the author loop in author_pr_files
    origin,          \* ghost, parallel to output_data: <<entry index, handle>> of each row
    localDirs,       \* the local file system: directory name -> files os.walk finds
    sinkLog,         \* requests issued to GOOGLE_SHEET_URL_UPDATE, in order
    stdout,          \* messages printed by prepare_and_send_data
    prevRows, prevOutcome,   \* output_data and outcome of the first invocation
    \* ---- harness of the pure functions ----
    fnArgs, fnResult

worldVars == <<sheetResponse, ghResponse, cloneResponse>>
procVars  == <<pc, run, outcome, data_from_sheet, names_dict, output_data, idx,
               target_files, pr_list, launched_str, time_str, date_str,
               author_pr_files, apos, origin, localDirs, sinkLog, stdout,
               prevRows, prevOutcome>>
fnVars    == <<fnArgs, fnResult>>
vars      == <<worldVars, procVars, fnVars>>

-----------------------------------------------------------------------------
(* Bounds of the model *)

MaxEntries == 2      \* longest feed
MaxPRs == 2          \* most pull requests of the repository

-----------------------------------------------------------------------------
(* Python strings *)

\* The characters in use, in code-point order: Python compares strings by code point.
Alphabet ==
    << " ", "*", ",", "-", ".", "/", "0", "1", "2", "3", "4", "5", "6", "7", "8", "9",
       ":", "A", "B", "L", "N", "_", "a", "b", "d", "e", "j", "k", "l", "m", "n",
       "o", "r", "s", "t", "u", "v", "x", "y" >>

Ord(c) == CHOOSE i \in 1..Len(Alphabet) : Alphabet[i] = c

Range(s) == { s[i] : i \in DOMAIN s }

\* str.lower(), one character
LowerChar(c) ==
    CASE c = "A" -> "a" [] c = "B" -> "b" [] c = "L" -> "l" [] c = "N" -> "n"
      [] OTHER -> c

\* str.lower()
Lower(s) == [ i \in DOMAIN s |-> LowerChar(s[i]) ]

RECURSIVE LStrip(_)
LStrip(s) == IF s # <<>> /\ Head(s) = " " THEN LStrip(Tail(s)) ELSE s

RECURSIVE RStrip(_)
RStrip(s) ==
    IF s # <<>> /\ s[Len(s)] = " " THEN RStrip(SubSeq(s, 1, Len(s) - 1)) ELSE s

\* str.strip()
Strip(s) == RStrip(LStrip(s))

\* str.rstrip(ch)
RECURSIVE RStripChar(_, _)
RStripChar(s, ch) ==
    IF s # <<>> /\ s[Len(s)] = ch THEN RStripChar(SubSeq(s, 1, Len(s) - 1), ch) ELSE s

RECURSIVE SplitAcc(_, _, _)
SplitAcc(s, sep, cur) ==
    IF s = <<>> THEN << cur >>
    ELSE IF Head(s) = sep THEN << cur >> \o SplitAcc(Tail(s), sep, <<>>)
    ELSE SplitAcc(Tail(s), sep, Append(cur, Head(s)))

\* str.split(sep): never the empty list; ''.split(',') is ['']
Split(s, sep) == SplitAcc(s, sep, <<>>)

\* sep.join(parts)
RECURSIVE Join(_, _)
Join(parts, sep) ==
    IF parts = <<>> THEN <<>>
    ELSE IF Len(parts) = 1 THEN parts[1]
    ELSE parts[1] \o sep \o Join(Tail(parts), sep)

\* str.endswith(suffix)
EndsWith(s, suffix) ==
    /\ Len(s) >= Len(suffix)
    /\ SubSeq(s, Len(s) - Len(suffix) + 1, Len(s)) = suffix

\* a > b on Python strings: lexicographic by code point
RECURSIVE StrGreater(_, _)
StrGreater(a, b) ==
    IF a = <<>> THEN FALSE
    ELSE IF b = <<>> THEN TRUE
    ELSE IF Head(a) # Head(b) THEN Ord(Head(a)) > Ord(Head(b))
    ELSE StrGreater(Tail(a), Tail(b))

-----------------------------------------------------------------------------
(* Python literals *)

NA == << "N", "/", "A" >>                  \* 'N/A'
None == << "None" >>                       \* Python's None; no string equals it
comma_space == << ",", " " >>              \* ', '
dot_java == << ".", "j", "a", "v", "a" >>  \* '.java'
dot_js == << ".", "j", "s" >>              \* '.js'
max_time == << "2", "1", ":", "0", "0", ":", "0", "0" >>   \* "21:00:00"

-----------------------------------------------------------------------------
(* Dates and times *)

Digits == << "0", "1", "2", "3", "4", "5", "6", "7", "8", "9" >>

DigitVal(c) == (CHOOSE i \in 1..10 : Digits[i] = c) - 1

\* int(text) for a string of digits
RECURSIVE ToInt(_)
ToInt(s) == IF s = <<>> THEN 0 ELSE 10 * ToInt(SubSeq(s, 1, Len(s) - 1)) + DigitVal(s[Len(s)])

\* n formatted in w digits, zero padded
RECURSIVE Pad(_, _)
Pad(n, w) == IF w = 0 THEN <<>> ELSE Pad(n \div 10, w - 1) \o << Digits[(n % 10) + 1] >>

\* datetime.strftime('%H:%M:%S')
strftime_time(t) == Pad(t.h, 2) \o << ":" >> \o Pad(t.mi, 2) \o << ":" >> \o Pad(t.s, 2)

\* datetime.strftime('%Y-%m-%d')
strftime_date(t) == Pad(t.y, 4) \o << "-" >> \o Pad(t.mo, 2) \o << "-" >> \o Pad(t.d, 2)

\* dateutil parser.parse on a 'YYYY-MM-DD' string: midnight of that day
parse(s) ==
    LET f == Split(s, "-")
    IN  [ y |-> ToInt(f[1]), mo |-> ToInt(f[2]), d |-> ToInt(f[3]), h |-> 0, mi |-> 0, s |-> 0 ]

DtTuple(t) == << t.y, t.mo, t.d, t.h, t.mi, t.s >>

RECURSIVE TupleGreater(_, _)
TupleGreater(a, b) ==
    IF a = <<>> THEN FALSE
    ELSE IF Head(a) # Head(b) THEN Head(a) > Head(b)
    ELSE TupleGreater(Tail(a), Tail(b))

\* a > b on datetime objects
DtGreater(a, b) == TupleGreater(DtTuple(a), DtTuple(b))

-----------------------------------------------------------------------------
(* enforce_constraints *)

\* A slip that clamps the time only inside the date branch.
enforce_constraints_coupled(t, d, launched) ==
    IF d # NA /\ launched # NA
    THEN << IF t # NA /\ StrGreater(t, max_time) THEN max_time ELSE t,
            IF DtGreater(parse(d), parse(launched)) THEN launched ELSE d >>
    ELSE << t, d >>

enforce_constraints(t, d, launched) ==
    LET t2 == IF t # NA
              THEN (IF StrGreater(t, max_time) THEN max_time ELSE t)
              ELSE t
        d2 == IF d # NA /\ launched # NA
              THEN (IF DtGreater(parse(d), parse(launched)) THEN launched ELSE d)
              ELSE d
    IN  << t2, d2 >>

-----------------------------------------------------------------------------
(* determine_status *)

\* A slip that compares without normalising the letter case.
determine_status_cased(pr_files, targets) ==
    IF ~ (Range(targets) \subseteq Range(pr_files)) THEN "Not Done" ELSE "Done"

\* pr_files and targets are lists of file names
determine_status(pr_files, targets) ==
    LET pr_files_set == { Lower(f) : f \in Range(pr_files) }
        target_files_set == { Lower(f) : f \in Range(targets) }
    IN  IF ~ (target_files_set \subseteq pr_files_set) THEN "Not Done" ELSE "Done"

-----------------------------------------------------------------------------
(* The Target File column (prepare_and_send_data, lines 241 and 252-258) *)

IsSource(file) == EndsWith(file, dot_java) \/ EndsWith(file, dot_js)

NonBlank(file) == Strip(file) # <<>>

StripAll(files) == [ i \in DOMAIN files |-> Strip(files[i]) ]

\* field: the entry's 'Target File' string; walked: the files os.walk(repo_dir) yields
resolve_target_files(field, walked) ==
    LET split == Split(field, ",")
    IN  IF split = <<>> \/ Lower(Strip(split[1])) \in { << "n", "/", "a" >>, << "n", "a" >> }
        THEN SelectSeq(walked, IsSource)
        ELSE StripAll(SelectSeq(split, NonBlank))

-----------------------------------------------------------------------------
(* Ordered dictionaries (Python dict keeps insertion order): sequences of
   [key, value] *)

DictKeys(dict) == { dict[i].key : i \in DOMAIN dict }

DictGet(dict, k) == (CHOOSE i \in DOMAIN dict : dict[i].key = k)

\* dict[k] = v: a known key keeps its place, a new key goes last
DictPut(dict, k, v) ==
    IF k \in DictKeys(dict)
    THEN [ i \in DOMAIN dict |-> IF dict[i].key = k THEN [ key |-> k, value |-> v ] ELSE dict[i] ]
    ELSE Append(dict, [ key |-> k, value |-> v ])

-----------------------------------------------------------------------------
(* sanitize_repo_name *)

InvalidChars == { "<", ">", ":", "\"", "/", "\\", "|", "?", "*" }

sanitize_repo_name(repo_url) ==
    LET parts == Split(RStripChar(repo_url, "/"), "/")
        repo_name == parts[Len(parts)]
    IN  [ i \in DOMAIN repo_name |->
            IF repo_name[i] \in InvalidChars THEN "_" ELSE repo_name[i] ]

-----------------------------------------------------------------------------
(* load_names_from_file *)

\* The roster file NAMES_FILE, line by line: "Al, Ann", "junk", "bo,Bob", "AL,Amy "
NAMES_FILE ==
    << << "A", "l", ",", " ", "A", "n", "n" >>,
       << "j", "u", "n", "k" >>,
       << "b", "o", ",", "B", "o", "b" >>,
       << "A", "L", ",", "A", "m", "y", " " >> >>

RECURSIVE load_lines(_, _)
load_lines(lines, dict) ==
    IF lines = <<>> THEN dict
    ELSE LET name_parts == Split(Strip(Head(lines)), ",")
         IN  IF Len(name_parts) = 2
             THEN load_lines(Tail(lines),
                             DictPut(dict, Lower(Strip(name_parts[1])), Strip(name_parts[2])))
             ELSE load_lines(Tail(lines), dict)

load_names_from_file(names_file) == load_lines(names_file, <<>>)

-----------------------------------------------------------------------------
(* The external data the run reads *)

repo_url_1 == << "o", "/", "r" >>                       \* "o/r"

a_js   == << "a", ".", "j", "s" >>
A_js   == << "A", ".", "j", "s" >>
b_java == << "b", ".", "j", "a", "v", "a" >>
B_java == << "B", ".", "j", "a", "v", "a" >>
r_txt  == << "r", ".", "t", "x", "t" >>

launch_day == << "2", "0", "2", "4", "-", "0", "1", "-", "1", "0" >>   \* "2024-01-10"

\* What os.walk finds in a fresh clone of the repository
WorkingTree == << a_js, r_txt, b_java >>

\* The rows the remote sheet may hold.  A missing field reads as '' (entry.get(k, ''))
Entries ==
    { \* explicit targets "A.js, b.java", launched 2024-01-10
      [ RepoURL |-> repo_url_1, Assignment |-> << "e", "1" >>, Type |-> << "L" >>,
        TargetFile |-> A_js \o << ",", " " >> \o b_java, Date |-> launch_day ],
      \* Target File "N/A", no date
      [ RepoURL |-> repo_url_1, Assignment |-> << "e", "2" >>, Type |-> << "L" >>,
        TargetFile |-> NA, Date |-> <<>> ],
      \* Target File left empty
      [ RepoURL |-> repo_url_1, Assignment |-> << "e", "3" >>, Type |-> << "L" >>,
        TargetFile |-> <<>>, Date |-> launch_day ],
      \* no repository URL
      [ RepoURL |-> <<>>, Assignment |-> << "e", "4" >>, Type |-> << "L" >>,
        TargetFile |-> a_js, Date |-> <<>> ] }

Feeds == UNION { [ 1..n -> Entries ] : n \in 0..MaxEntries }

tEarly == [ y |-> 2024, mo |-> 1, d |-> 9, h |-> 18, mi |-> 0, s |-> 0 ]
tLate  == [ y |-> 2024, mo |-> 1, d |-> 12, h |-> 22, mi |-> 15, s |-> 0 ]

\* None where the code holds a datetime
NoTime == [ y |-> 0, mo |-> 0, d |-> 0, h |-> 0, mi |-> 0, s |-> 0 ]

\* The pull requests the repository may hold.  details_ok: `gh pr view --json
\* title,author,files,createdAt` succeeds; commits_ok: `gh pr view --json commits`
\* succeeds, and commits are then the committedDate values.
PullRequests ==
    { [ login |-> << "A", "l" >>, files |-> << a_js >>, createdAt |-> 3,
        details_ok |-> TRUE, commits_ok |-> TRUE, commits |-> << tEarly, tLate >> ],
      [ login |-> << "A", "l" >>, files |-> << B_java >>, createdAt |-> 1,
        details_ok |-> TRUE, commits_ok |-> FALSE, commits |-> <<>> ],
      [ login |-> << "b", "o" >>, files |-> << A_js, b_java, A_js >>, createdAt |-> 2,
        details_ok |-> TRUE, commits_ok |-> FALSE, commits |-> <<>> ],
      [ login |-> << "e", "v" >>, files |-> << a_js >>, createdAt |-> 2,
        details_ok |-> TRUE, commits_ok |-> TRUE, commits |-> << tEarly >> ],
      [ login |-> << "b", "o" >>, files |-> << a_js >>, createdAt |-> 1,
        details_ok |-> FALSE, commits_ok |-> TRUE, commits |-> << tEarly >> ] }

PRLists == UNION { [ 1..n -> PullRequests ] : n \in 0..MaxPRs }

SheetResponses ==
    { [ ok |-> FALSE, rows |-> <<>> ] } \cup { [ ok |-> TRUE, rows |-> f ] : f \in Feeds }

GhResponses ==
    { [ kind |-> "missing", prs |-> <<>> ], [ kind |-> "error", prs |-> <<>> ] }
        \cup { [ kind |-> "ok", prs |-> l ] : l \in PRLists }

CloneResponses == { [ ok |-> FALSE, tree |-> <<>> ], [ ok |-> TRUE, tree |-> WorkingTree ] }

-----------------------------------------------------------------------------
(* fetch_data_from_sheet *)

fetch_data_from_sheet == IF sheetResponse.ok THEN sheetResponse.rows ELSE <<>>

-----------------------------------------------------------------------------
(* clone_repo and os.walk *)

NoDirs == [ dir \in {} |-> <<>> ]

clone_repo(repo_url, dirs) ==
    LET repo_dir == sanitize_repo_name(repo_url)
    IN  IF repo_dir \notin DOMAIN dirs
        THEN (IF cloneResponse.ok THEN (repo_dir :> cloneResponse.tree) @@ dirs ELSE dirs)
        ELSE dirs

os_walk(repo_dir, dirs) == IF repo_dir \in DOMAIN dirs THEN dirs[repo_dir] ELSE <<>>

-----------------------------------------------------------------------------
(* get_pr_details, get_pr_list, get_latest_commit_time *)

check_gh_command == ghResponse.kind # "missing"

\* {}: a dict with no key
EmptyDict == [ empty |-> TRUE ]

get_pr_details(pr_id) ==
    IF ~ check_gh_command THEN EmptyDict
    ELSE IF ~ ghResponse.prs[pr_id].details_ok THEN EmptyDict
    ELSE [ empty |-> FALSE, id |-> pr_id, author |-> ghResponse.prs[pr_id].login,
           files |-> ghResponse.prs[pr_id].files,
           createdAt |-> ghResponse.prs[pr_id].createdAt ]

\* list.sort(key = createdAt, reverse = True): stable, latest first
RECURSIVE InsertDesc(_, _)
InsertDesc(x, sorted) ==
    IF sorted = <<>> THEN << x >>
    ELSE IF Head(sorted).createdAt >= x.createdAt
         THEN << Head(sorted) >> \o InsertDesc(x, Tail(sorted))
         ELSE << x >> \o sorted

RECURSIVE SortDesc(_)
SortDesc(seq) ==
    IF seq = <<>> THEN <<>>
    ELSE InsertDesc(seq[Len(seq)], SortDesc(SubSeq(seq, 1, Len(seq) - 1)))

\* pr_dict: author login -> ids, in the order the logins first appear
RECURSIVE GroupIds(_, _)
GroupIds(listed, pr_dict) ==
    IF listed = <<>> THEN pr_dict
    ELSE LET pr == Head(listed)
             ids == IF pr.author \in DictKeys(pr_dict)
                    THEN Append(pr_dict[DictGet(pr_dict, pr.author)].value, pr.number)
                    ELSE << pr.number >>
         IN  GroupIds(Tail(listed), DictPut(pr_dict, pr.author, ids))

RECURSIVE FlattenIds(_)
FlattenIds(pr_dict) ==
    IF pr_dict = <<>> THEN <<>> ELSE Head(pr_dict).value \o FlattenIds(Tail(pr_dict))

get_pr_list ==
    IF ~ check_gh_command THEN <<>>
    ELSE IF ghResponse.kind = "error" THEN <<>>
    ELSE LET listed == [ i \in DOMAIN ghResponse.prs |->
                           [ number |-> i, author |-> ghResponse.prs[i].login,
                             createdAt |-> ghResponse.prs[i].createdAt ] ]
             ids == FlattenIds(GroupIds(SortDesc(listed), <<>>))
         IN  [ i \in DOMAIN ids |-> get_pr_details(ids[i]) ]

RECURSIVE MaxTime(_)
MaxTime(times) ==
    IF Len(times) = 1 THEN times[1]
    ELSE LET rest == MaxTime(Tail(times))
         IN  IF DtGreater(rest, Head(times)) THEN rest ELSE Head(times)

\* None (NoTime) when the query fails
get_latest_commit_time(pr_id) ==
    IF ~ ghResponse.prs[pr_id].commits_ok THEN NoTime
    ELSE MaxTime(ghResponse.prs[pr_id].commits)

-----------------------------------------------------------------------------
(* prepare_and_send_data: the pieces of the loop body *)

entry == data_from_sheet[idx]

authorized_usernames == DictKeys(names_dict)

\* pr['author'] of a {} raises KeyError
RaisesKeyError(prs) == \E i \in DOMAIN prs : prs[i].empty

\* author_pr_files: authorized author -> union of the files of the author's PRs
RECURSIVE accumulate(_, _, _)
accumulate(prs, authorized, acc) ==
    IF prs = <<>> THEN acc
    ELSE LET pr == Head(prs)
             pr_author == Lower(pr.author)
         IN  IF pr_author \in authorized
             THEN IF pr_author \notin DictKeys(acc)
                  THEN accumulate(Tail(prs), authorized,
                                  DictPut(acc, pr_author, Range(pr.files)))
                  ELSE accumulate(Tail(prs), authorized,
                                  DictPut(acc, pr_author,
                                          acc[DictGet(acc, pr_author)].value \cup Range(pr.files)))
             ELSE accumulate(Tail(prs), authorized, acc)

\* the loop over pr_list that keeps the latest commit time of pr_author's PRs
RECURSIVE latest_commit(_, _, _)
latest_commit(prs, pr_author, latest_commit_time) ==
    IF prs = <<>> THEN latest_commit_time
    ELSE LET pr == Head(prs)
             commit_time == get_latest_commit_time(pr.id)
         IN  IF Lower(pr.author) = pr_author
                /\ commit_time # NoTime
                /\ (latest_commit_time = NoTime \/ DtGreater(commit_time, latest_commit_time))
             THEN latest_commit(Tail(prs), pr_author, commit_time)
             ELSE latest_commit(Tail(prs), pr_author, latest_commit_time)

\* The orders in which iterating a set of strings may yield it: the order follows
\* the strings' hashes, which CPython salts anew in every process.
Orderings(S) == { o \in [ 1..Cardinality(S) -> S ] : Range(o) = S }

launched_of(repo_date_str) ==
    IF repo_date_str # <<>> THEN strftime_date(parse(repo_date_str)) ELSE NA

attended_row(e, real_name, date, files, targets, status, time, launched) ==
    [ Repo |-> sanitize_repo_name(e.RepoURL), Name |-> real_name,
      Assignment |-> e.Assignment, Date |-> date,
      Files |-> IF files # <<>> THEN Join(files, comma_space) ELSE NA,
      TargetFiles |-> Join(targets, comma_space), Status |-> status,
      Score |-> IF status = "Done" THEN 1 ELSE 0, Time |-> time,
      Launched |-> launched, Type |-> e.Type ]

non_attended_row(e, real_name, targets, launched) ==
    [ Repo |-> sanitize_repo_name(e.RepoURL), Name |-> real_name,
      Assignment |-> e.Assignment, Date |-> None, Files |-> NA,
      TargetFiles |-> Join(targets, comma_space), Status |-> "Not Done",
      Score |-> 0, Time |-> NA, Launched |-> launched, Type |-> e.Type ]

\* A slip that leaves out the members who submitted nothing.
absent_members_none(names, attended) == <<>>

\* the roster members with no entry in author_pr_files, in roster order
absent_members(names, attended) ==
    LET Absent(kv) == kv.key \notin attended
    IN  SelectSeq(names, Absent)

\* A slip that leaves the for loop after its first pass (the publish indented into it).
after_entry_eager(i) == "clear"

\* where the for loop over data_from_sheet goes after entry i
after_entry(i) == IF i < Len(data_from_sheet) THEN "entry" ELSE "clear"

-----------------------------------------------------------------------------
(* prepare_and_send_data: the steps *)

\* lines 228-235
Fetch ==
    /\ pc = "start"
    /\ data_from_sheet' = fetch_data_from_sheet
    /\ IF data_from_sheet' = <<>>
       THEN /\ stdout' = Append(stdout, "No data fetched")
            /\ pc' = "done"
            /\ outcome' = "returned"
            /\ UNCHANGED << names_dict, idx >>
       ELSE /\ names_dict' = load_names_from_file(NAMES_FILE)
            /\ idx' = 1
            /\ pc' = "entry"
            /\ UNCHANGED << stdout, outcome >>
    /\ output_data' = <<>>
    /\ UNCHANGED << worldVars, fnVars, run, target_files, pr_list, launched_str, time_str,
                    date_str, author_pr_files, apos, origin, localDirs, sinkLog,
                    prevRows, prevOutcome >>

\* lines 244-246
SkipEntry ==
    /\ pc = "entry"
    /\ entry.RepoURL = <<>> \/ entry.Assignment = <<>>
    /\ stdout' = Append(stdout, "Skipping entry")
    /\ pc' = after_entry(idx)
    /\ idx' = idx + 1
    /\ UNCHANGED << worldVars, fnVars, run, outcome, data_from_sheet, names_dict,
                    output_data, target_files, pr_list, launched_str, time_str, date_str,
                    author_pr_files, apos, origin, localDirs, sinkLog, prevRows,
                    prevOutcome >>

\* lines 248-279
BeginEntry ==
    /\ pc = "entry"
    /\ ~ (entry.RepoURL = <<>> \/ entry.Assignment = <<>>)
    /\ localDirs' = clone_repo(entry.RepoURL, localDirs)
    /\ target_files' = resolve_target_files(entry.TargetFile,
                           os_walk(sanitize_repo_name(entry.RepoURL), localDirs'))
    /\ pr_list' = get_pr_list
    /\ launched_str' = launched_of(entry.Date)
    /\ date_str' = NA
    /\ time_str' = NA
    /\ IF RaisesKeyError(pr_list')
       THEN /\ pc' = "done"
            /\ outcome' = "raised"
            /\ UNCHANGED << author_pr_files, apos >>
       ELSE /\ author_pr_files' = accumulate(pr_list', authorized_usernames, <<>>)
            /\ apos' = 1
            /\ pc' = "authors"
            /\ UNCHANGED outcome
    /\ UNCHANGED << worldVars, fnVars, run, data_from_sheet, names_dict, output_data,
                    idx, origin, sinkLog, stdout, prevRows, prevOutcome >>

\* lines 282-318, one author
ProcessAuthor ==
    /\ pc = "authors"
    /\ apos <= Len(author_pr_files)
    /\ LET pr_author == author_pr_files[apos].key
           pr_files == author_pr_files[apos].value
           real_name == names_dict[DictGet(names_dict, pr_author)].value
           latest_commit_time == latest_commit(pr_list, pr_author, NoTime)
           time1 == IF latest_commit_time # NoTime
                    THEN strftime_time(latest_commit_time) ELSE time_str
           date1 == IF latest_commit_time # NoTime
                    THEN strftime_date(latest_commit_time) ELSE date_str
           clamped == enforce_constraints(time1, date1, launched_str)
       IN  /\ time_str' = clamped[1]
           /\ date_str' = clamped[2]
           /\ \E files \in Orderings(pr_files) :
                 output_data' = Append(output_data,
                     attended_row(entry, real_name, clamped[2], files, target_files,
                                  determine_status(files, target_files), clamped[1],
                                  launched_str))
           /\ origin' = Append(origin, << idx, pr_author >>)
    /\ apos' = apos + 1
    /\ UNCHANGED << worldVars, fnVars, pc, run, outcome, data_from_sheet, names_dict, idx,
                    target_files, pr_list, launched_str, author_pr_files, localDirs,
                    sinkLog, stdout, prevRows, prevOutcome >>

\* lines 320-336, and the step of the for loop
NonAttended ==
    /\ pc = "authors"
    /\ apos > Len(author_pr_files)
    /\ LET attended_authors == DictKeys(author_pr_files)
           absent == absent_members(names_dict, attended_authors)
       IN  /\ output_data' = output_data \o
                 [ i \in DOMAIN absent |->
                     non_attended_row(entry, absent[i].value, target_files, launched_str) ]
           /\ origin' = origin \o [ i \in DOMAIN absent |-> << idx, absent[i].key >> ]
    /\ pc' = after_entry(idx)
    /\ idx' = idx + 1
    /\ UNCHANGED << worldVars, fnVars, run, outcome, data_from_sheet, names_dict,
                    target_files, pr_list, launched_str, time_str, date_str,
                    author_pr_files, apos, localDirs, sinkLog, stdout, prevRows,
                    prevOutcome >>

\* A slip that gives up the run when the clear request fails.
clear_sheet_aborting ==
    /\ pc = "clear"
    /\ \E ok \in BOOLEAN :
          /\ sinkLog' = Append(sinkLog, [ request |-> "clear", body |-> <<>>, ok |-> ok ])
          /\ stdout' = Append(stdout, IF ok THEN "Cleared past data" ELSE "Error clearing data")
          /\ pc' = IF ok THEN "post" ELSE "done"
          /\ outcome' = IF ok THEN outcome ELSE "returned"
    /\ UNCHANGED << worldVars, fnVars, run, data_from_sheet, names_dict, output_data,
                    idx, target_files, pr_list, launched_str, time_str, date_str,
                    author_pr_files, apos, origin, localDirs, prevRows, prevOutcome >>

\* lines 338-345: GET ...?action=clear; a failure is printed and the run goes on
clear_sheet ==
    /\ pc = "clear"
    /\ \E ok \in BOOLEAN :
          /\ sinkLog' = Append(sinkLog, [ request |-> "clear", body |-> <<>>, ok |-> ok ])
          /\ stdout' = Append(stdout, IF ok THEN "Cleared past data" ELSE "Error clearing data")
    /\ pc' = "post"
    /\ UNCHANGED << worldVars, fnVars, run, outcome, data_from_sheet, names_dict,
                    output_data, idx, target_files, pr_list, launched_str, time_str,
                    date_str, author_pr_files, apos, origin, localDirs, prevRows,
                    prevOutcome >>

\* A slip that lets the failure of the POST escape to the caller.
send_data_raising ==
    /\ pc = "post"
    /\ \E ok \in BOOLEAN :
          /\ sinkLog' = Append(sinkLog, [ request |-> "replace", body |-> output_data, ok |-> ok ])
          /\ stdout' = IF ok THEN Append(stdout, "Data successfully sent") ELSE stdout
          /\ outcome' = IF ok THEN "returned" ELSE "raised"
    /\ pc' = "done"
    /\ UNCHANGED << worldVars, fnVars, run, data_from_sheet, names_dict, output_data,
                    idx, target_files, pr_list, launched_str, time_str, date_str,
                    author_pr_files, apos, origin, localDirs, prevRows, prevOutcome >>

\* lines 347-353: POST output_data; a failure is printed and the function returns
send_data ==
    /\ pc = "post"
    /\ \E ok \in BOOLEAN :
          /\ sinkLog' = Append(sinkLog, [ request |-> "replace", body |-> output_data, ok |-> ok ])
          /\ stdout' = Append(stdout, IF ok THEN "Data successfully sent" ELSE "Error sending data")
    /\ outcome' = "returned"
    /\ pc' = "done"
    /\ UNCHANGED << worldVars, fnVars, run, data_from_sheet, names_dict, output_data,
                    idx, target_files, pr_list, launched_str, time_str, date_str,
                    author_pr_files, apos, origin, localDirs, prevRows, prevOutcome >>

\* lines 356-358: the entry point is run again, in a new process; only the local
\* working copies remain
Rerun ==
    /\ pc = "done"
    /\ run = "first"
    /\ run' = "second"
    /\ prevRows' = output_data
    /\ prevOutcome' = outcome
    /\ pc' = "start"
    /\ outcome' = "none"
    /\ data_from_sheet' = <<>>
    /\ names_dict' = <<>>
    /\ output_data' = <<>>
    /\ idx' = 0
    /\ target_files' = <<>>
    /\ pr_list' = <<>>
    /\ launched_str' = NA
    /\ time_str' = NA
    /\ date_str' = NA
    /\ author_pr_files' = <<>>
    /\ apos' = 0
    /\ origin' = <<>>
    /\ sinkLog' = <<>>
    /\ stdout' = <<>>
    /\ UNCHANGED << worldVars, fnVars, localDirs >>

-----------------------------------------------------------------------------
(* The specifications *)

InitProcess ==
    /\ pc = "start"
    /\ run = "first"
    /\ outcome = "none"
    /\ data_from_sheet = <<>>
    /\ names_dict = <<>>
    /\ output_data = <<>>
    /\ idx = 0
    /\ target_files = <<>>
    /\ pr_list = <<>>
    /\ launched_str = NA
    /\ time_str = NA
    /\ date_str = NA
    /\ author_pr_files = <<>>
    /\ apos = 0
    /\ origin = <<>>
    /\ localDirs = NoDirs
    /\ sinkLog = <<>>
    /\ stdout = <<>>
    /\ prevRows = <<>>
    /\ prevOutcome = "none"

\* the remote repository can be cloned
Init ==
    /\ sheetResponse \in SheetResponses
    /\ ghResponse \in GhResponses
    /\ cloneResponse \in { r \in CloneResponses : r.ok }
    /\ InitProcess
    /\ fnArgs = <<>>
    /\ fnResult = <<>>

\* the clone may fail as well
InitRerun ==
    /\ sheetResponse \in SheetResponses
    /\ ghResponse \in GhResponses
    /\ cloneResponse \in CloneResponses
    /\ InitProcess
    /\ fnArgs = <<>>
    /\ fnResult = <<>>

Next ==
    \/ Fetch
    \/ SkipEntry
    \/ BeginEntry
    \/ ProcessAuthor
    \/ NonAttended
    \/ clear_sheet
    \/ send_data

\* one invocation of the entry point
Spec == Init /\ [][Next]_vars

NextRerun == Next \/ Rerun

\* two invocations, one after the other, against the same external data
SpecRerun == InitRerun /\ [][NextRerun]_vars

-----------------------------------------------------------------------------
(* The pure functions on their own: the inputs are drawn in the initial state
   and one step applies the function *)

IdleProcess ==
    /\ sheetResponse = [ ok |-> FALSE, rows |-> <<>> ]
    /\ ghResponse = [ kind |-> "missing", prs |-> <<>> ]
    /\ cloneResponse = [ ok |-> FALSE, tree |-> <<>> ]
    /\ InitProcess

Hours == { 0, 9, 18, 20, 21, 22, 23 }
Minutes == { 0, 15, 59 }
Seconds == { 0, 1 }

TimeStrings ==
    { strftime_time([ y |-> 2024, mo |-> 1, d |-> 1, h |-> hh, mi |-> mm, s |-> ss ]) :
        hh \in Hours, mm \in Minutes, ss \in Seconds }

DateStrings ==
    { strftime_date([ y |-> dt[1], mo |-> dt[2], d |-> dt[3], h |-> 0, mi |-> 0, s |-> 0 ]) :
        dt \in { << 2023, 12, 31 >>, << 2024, 1, 9 >>, << 2024, 1, 10 >>,
                 << 2024, 1, 12 >>, << 2024, 2, 1 >>, << 2025, 1, 1 >> } }

InitEnforce ==
    /\ IdleProcess
    /\ fnArgs \in (TimeStrings \cup { NA }) \X (DateStrings \cup { NA }) \X (DateStrings \cup { NA })
    /\ fnResult = <<>>

ApplyEnforce ==
    /\ fnResult = <<>>
    /\ fnResult' = enforce_constraints(fnArgs[1], fnArgs[2], fnArgs[3])
    /\ UNCHANGED << worldVars, procVars, fnArgs >>

SpecEnforce == InitEnforce /\ [][ApplyEnforce]_vars

\* 'Target File' values: "", "N/A", "n/a", "NA", "na", " N/A ", "a.js",
\* "A.js, b.java", "a.js,,b.java", " a.js ,"
TargetFields ==
    { <<>>, NA, << "n", "/", "a" >>, << "N", "A" >>, << "n", "a" >>,
      << " " >> \o NA \o << " " >>, a_js, A_js \o << ",", " " >> \o b_java,
      a_js \o << ",", "," >> \o b_java, << " " >> \o a_js \o << " ", "," >> }

\* what os.walk may find in the working copy
WalkedFiles ==
    { <<>>, WorkingTree, << r_txt >>, << a_js >>, << B_java, r_txt >>, << a_js, a_js >> }

InitTargets ==
    /\ IdleProcess
    /\ fnArgs \in TargetFields \X WalkedFiles
    /\ fnResult = <<>>

ApplyTargets ==
    /\ fnResult = <<>>
    /\ fnResult' = << resolve_target_files(fnArgs[1], fnArgs[2]) >>
    /\ UNCHANGED << worldVars, procVars, fnArgs >>

SpecTargets == InitTargets /\ [][ApplyTargets]_vars

-----------------------------------------------------------------------------
(* What the claims speak of, read off the external data and the rows *)

roster == DictKeys(names_dict)

NameOf(handle) == names_dict[DictGet(names_dict, handle)].value

\* the rows written for roster member handle and entry i
RowsFor(i, handle) == { k \in DOMAIN output_data : origin[k] = << i, handle >> }

\* entry i is not skipped
HasRepoAndLabel(i) == data_from_sheet[i].RepoURL # <<>> /\ data_from_sheet[i].Assignment # <<>>

\* the pull requests of the repository that are handle's
SubmissionsOf(handle) ==
    { j \in DOMAIN ghResponse.prs : Lower(ghResponse.prs[j].login) = handle }

\* the changed files of all of handle's pull requests
AllFilesOf(handle) == UNION { Range(ghResponse.prs[j].files) : j \in SubmissionsOf(handle) }

\* the latest-activity answers handle's pull requests get
OwnTimes(handle) ==
    { MaxTime(ghResponse.prs[j].commits) :
        j \in { n \in SubmissionsOf(handle) : ghResponse.prs[n].commits_ok } }

Latest(times) == CHOOSE t \in times : \A u \in times : ~ DtGreater(u, t)

\* the target files of entry i
TargetsOf(i) ==
    resolve_target_files(data_from_sheet[i].TargetFile,
                         os_walk(sanitize_repo_name(data_from_sheet[i].RepoURL), localDirs))

IsNotDoneRow(row) ==
    /\ row.Status = "Not Done"
    /\ row.Score = 0
    /\ row.Files = NA
    /\ row.Time = NA
    /\ row.Date = None

Requests == [ k \in DOMAIN sinkLog |-> sinkLog[k].request ]

\* the for loop has gone through every entry of the feed
LoopFinished == data_from_sheet # <<>> /\ idx > Len(data_from_sheet)

SecondsOfDay(t) ==
    ToInt(SubSeq(t, 1, 2)) * 3600 + ToInt(SubSeq(t, 4, 5)) * 60 + ToInt(SubSeq(t, 7, 8))

DayNumber(d) ==
    ToInt(SubSeq(d, 1, 4)) * 372 + ToInt(SubSeq(d, 6, 7)) * 31 + ToInt(SubSeq(d, 9, 10))

CountOf(rows, row) == Cardinality({ k \in DOMAIN rows : rows[k] = row })

SameMultiset(a, b) == \A row \in Range(a) \cup Range(b) : CountOf(a, row) = CountOf(b, row)

-----------------------------------------------------------------------------
(* C1 *)

\* C1, as stated: once the loop over the feed is over, the rows hold exactly one
\* row for every roster handle and every entry of the feed, and the row of a
\* handle with no submission is Not Done / 0 / N/A / N/A / null.
C1_OneRowPerEntry ==
    pc \in { "clear", "post" } =>
        \A i \in DOMAIN data_from_sheet : \A handle \in roster :
            /\ Cardinality(RowsFor(i, handle)) = 1
            /\ SubmissionsOf(handle) = {} =>
                  \A k \in RowsFor(i, handle) : IsNotDoneRow(output_data[k])

\* C1, amended: in every state, for every roster handle and every entry the loop
\* has gone past, the rows hold exactly one row of that handle if the entry has a
\* Repo URL and an Assignment, and none if it lacks either; the row of a handle
\* with no submission is Not Done / 0 / N/A / N/A / null; no other row exists.
C1_OneRowPerProcessedEntry ==
    /\ Len(origin) = Len(output_data)
    /\ \A k \in DOMAIN origin :
          /\ origin[k][1] \in DOMAIN data_from_sheet
          /\ origin[k][2] \in roster
          /\ origin[k][1] <= idx
          /\ output_data[k].Name = NameOf(origin[k][2])
          /\ output_data[k].Assignment = data_from_sheet[origin[k][1]].Assignment
    /\ \A i \in DOMAIN data_from_sheet : \A handle \in roster :
          i < idx =>
             IF HasRepoAndLabel(i)
             THEN /\ Cardinality(RowsFor(i, handle)) = 1
                  /\ SubmissionsOf(handle) = {} =>
                        \A k \in RowsFor(i, handle) : IsNotDoneRow(output_data[k])
             ELSE RowsFor(i, handle) = {}

\* A skipped entry, then an entry with a member who submitted and one who did not.
C1_Witness ==
    /\ pc = "post"
    /\ Len(data_from_sheet) = 2
    /\ ~ HasRepoAndLabel(1)
    /\ HasRepoAndLabel(2)
    /\ \E h1, h2 \in roster :
          /\ SubmissionsOf(h1) = {} /\ RowsFor(2, h1) # {}
          /\ SubmissionsOf(h2) # {} /\ RowsFor(2, h2) # {}

-----------------------------------------------------------------------------
(* C2 *)

-----------------------------------------------------------------------------
(* C3 *)

\* C3: the row of an attended author reports N/A for Time and Date when every
\* latest-activity query for the author's submissions fails, and otherwise the
\* latest of the author's own answers, clamped.
C3_OwnActivityOnly ==
    \A k \in DOMAIN output_data :
        LET i == origin[k][1]
            handle == origin[k][2]
            row == output_data[k]
        IN  (ghResponse.kind = "ok" /\ SubmissionsOf(handle) # {}) =>
               IF OwnTimes(handle) = {}
               THEN row.Time = NA /\ row.Date = NA
               ELSE << row.Time, row.Date >> =
                       enforce_constraints(strftime_time(Latest(OwnTimes(handle))),
                                           strftime_date(Latest(OwnTimes(handle))),
                                           launched_of(data_from_sheet[i].Date))

-----------------------------------------------------------------------------
(* C4 *)

\* C4: whatever external read fails, the run is not aborted: it ends by
\* returning, and with a feed it has then written a row for every roster member
\* of every entry that has a Repo URL and an Assignment and has issued the
\* replace request.
C4_NoReadFailureAborts ==
    pc = "done" =>
        /\ outcome = "returned"
        /\ data_from_sheet # <<>> =>
              /\ \A i \in DOMAIN data_from_sheet : \A handle \in roster :
                    HasRepoAndLabel(i) => RowsFor(i, handle) # {}
              /\ \E k \in DOMAIN sinkLog : sinkLog[k].request = "replace"

-----------------------------------------------------------------------------
(* C5 *)

-----------------------------------------------------------------------------
(* C6 *)

\* C6, as stated: no request goes to the sink before the last entry is
\* processed, the replace never precedes the clear, and every run that returns
\* has issued exactly one clear and then exactly one replace carrying all rows.
C6_ClearThenReplace ==
    /\ sinkLog # <<>> => idx > Len(data_from_sheet)
    /\ Requests \in { <<>>, << "clear" >>, << "clear", "replace" >> }
    /\ (pc = "done" /\ outcome = "returned") =>
          /\ Requests = << "clear", "replace" >>
          /\ sinkLog[2].body = output_data

\* C6, amended: the same for every run whose feed is not empty; a run whose
\* feed is empty, or could not be fetched, issues no request to the sink.
C6_ClearThenReplaceWithFeed ==
    /\ sinkLog # <<>> => LoopFinished
    /\ Requests \in { <<>>, << "clear" >>, << "clear", "replace" >> }
    /\ (pc = "done" /\ outcome = "returned") =>
          IF data_from_sheet # <<>>
          THEN /\ Requests = << "clear", "replace" >>
               /\ sinkLog[2].body = output_data
          ELSE Requests = <<>>

\* A run over two entries has published its rows.
C6_Witness ==
    /\ pc = "done"
    /\ Len(data_from_sheet) = 2
    /\ Requests = << "clear", "replace" >>
    /\ sinkLog[2].body # <<>>
    /\ \E k \in DOMAIN origin : origin[k][1] = 2

-----------------------------------------------------------------------------
(* C7 *)

\* C7: enforce_constraints returns the time replaced by 21:00:00 exactly when
\* it is given and later in the day than 21:00:00, whatever the date and the
\* launch date, and the date replaced by the launch date exactly when both are
\* given and the date is a later day, whatever the time.
C7_IndependentClamps ==
    fnResult # <<>> =>
        LET t == fnArgs[1]
            d == fnArgs[2]
            launched == fnArgs[3]
        IN  /\ fnResult[1] = IF t # NA /\ SecondsOfDay(t) > 21 * 3600 THEN max_time ELSE t
            /\ fnResult[2] = IF d # NA /\ launched # NA /\ DayNumber(d) > DayNumber(launched)
                             THEN launched ELSE d

\* A time past the cutoff is clamped although no date is given, and a date past
\* the launch day is clamped although no time is given.
C7_Witness ==
    \/ /\ fnArgs[1] = << "2", "2", ":", "1", "5", ":", "0", "0" >>
       /\ fnArgs[2] = NA
       /\ fnResult = << max_time, NA >>
    \/ /\ fnArgs = << NA, strftime_date(tLate), launch_day >>
       /\ fnResult = << NA, launch_day >>

-----------------------------------------------------------------------------
(* C8 *)

\* C8: a Target File of "N/A" or "NA" in any letter case, or empty, gives the
\* .java and .js files of the working copy, which are some whenever the working
\* copy has any; every other value gives its trimmed, non-empty names.
C8_WildcardWhenBlank ==
    fnResult # <<>> =>
        LET field == fnArgs[1]
            walked == fnArgs[2]
            name == Lower(Strip(field))
        IN  IF name \in { << "n", "/", "a" >>, << "n", "a" >>, <<>> }
            THEN /\ fnResult[1] = SelectSeq(walked, IsSource)
                 /\ (\E n \in DOMAIN walked : IsSource(walked[n])) => fnResult[1] # <<>>
            ELSE fnResult[1] = StripAll(SelectSeq(Split(field, ","), NonBlank))

-----------------------------------------------------------------------------
(* C9 *)

\* C9: a second run against the same external data ends with the same rows,
\* counted with multiplicity, as the first.
C9_SameRowsOnRerun ==
    (run = "second" /\ pc = "done" /\ outcome = "returned" /\ prevOutcome = "returned") =>
        SameMultiset(output_data, prevRows)

-----------------------------------------------------------------------------
(* C10 *)

\* C10, as stated: a replace request is sent only after a clear request that
\* succeeded.
C10_ReplaceOnlyAfterClearSucceeded ==
    \A k \in DOMAIN sinkLog :
        sinkLog[k].request = "replace" =>
            \E j \in 1..(k - 1) : sinkLog[j].request = "clear" /\ sinkLog[j].ok

\* C10, amended: a replace request is sent only after a clear request was sent,
\* and it is sent whether that clear succeeded or failed: a run that has sent
\* the clear ends with the replace carrying its rows.
C10_ReplaceAfterClearAttempt ==
    /\ \A k \in DOMAIN sinkLog :
          sinkLog[k].request = "replace" =>
              \E j \in 1..(k - 1) : sinkLog[j].request = "clear"
    /\ (pc = "done" /\ sinkLog # <<>>) =>
          /\ sinkLog[Len(sinkLog)].request = "replace"
          /\ sinkLog[Len(sinkLog)].body = output_data

\* The clear has failed and the rows were sent all the same.
C10_Witness ==
    /\ pc = "done"
    /\ Len(sinkLog) = 2
    /\ sinkLog[1].request = "clear"
    /\ ~ sinkLog[1].ok
    /\ sinkLog[2].request = "replace"
    /\ sinkLog[2].body # <<>>

=============================================================================
